---- MODULE Spec2Model ----
(***************************************************************************)
(* Model of genaikit/nlp/processors.py: the TextProcessor object (sentence  *)
(* splitting, token-bounded chunking, semantic grouping, table assembly,   *)
(* sequential and concurrent embedding fetch) and the naive splitter.      *)
(*                                                                         *)
(* Texts.  A sentence is one of the strings "a", "aa", ... ; sentence k is *)
(* the string of k letters, so len(sentence) = k.  A text is written as    *)
(* the sequence of its sentences: for TextProcessor.split the sentences    *)
(* the parser finds, for naive_split the fragments text.split(". ") gives. *)
(* A joined text (' '.join(...), ". ".join(...) + ".") is written as the   *)
(* sequence of the joined parts; the separators sit between the elements.  *)
(***************************************************************************)
EXTENDS Integers, Sequences, FiniteSets, TLC

\* Number of distinct sentences a text is made of.
NumSentences == 2
\* Longest text, in sentences.
MaxLen == 3
\* Largest token count the tokenizer gives one sentence.
MaxTok == 3

Sentences == 1..NumSentences
TokenCounts == 1..MaxTok
\* The budgets tried: from 0 up to one more than the largest sentence.
Budgets == 0..(MaxTok + 1)
\* The minimal_length values tried (naive_split keeps len > minimal_length).
MinimalLengths == 0..(NumSentences - 1)

SeqsUpTo(S, n) == UNION {[1..k -> S] : k \in 0..n}
Texts == SeqsUpTo(Sentences, MaxLen)

\* An optional argument: None, or Some(v).
None == <<>>
Some(v) == <<v>>

VARIABLES
    encoding,    \* the tokenizer get_encoding(model) returns: sentence -> token count
    input,       \* the arguments the calls are made with
    sequences,   \* self.sequences
    chunks,      \* self.chunks
    n_tokens,    \* self.n_tokens
    segments,    \* self.segments
    dataframe,   \* self.dataframe: the rows of the table
    data,        \* the table naive_token_splitter returned
    tasks,       \* async_embeddings: the coroutines handed to asyncio.gather
    arrived,     \* async_embeddings: task indices in the order their responses arrived
    call         \* the last call made: its name and how it ended

vars == <<encoding, input, sequences, chunks, n_tokens, segments, dataframe, data, tasks, arrived, call>>

RECURSIVE Sum(_)
Sum(s) == IF s = <<>> THEN 0 ELSE Head(s) + Sum(Tail(s))

RECURSIVE Flatten(_)
Flatten(ss) == IF ss = <<>> THEN <<>> ELSE Head(ss) \o Flatten(Tail(ss))

\* len(encoding.encode(sentence + ' ')), and len(encoding.encode(" " + sentence)).
Encode(sentence) == encoding[sentence]

\* len(encoding.encode(chunk)) of a joined text: the tokenizer is taken additive.
EncodeChunk(chunk) == Sum([i \in 1..Len(chunk) |-> Encode(chunk[i])])

\* TextProcessor.split: the sentences of the text, in order.
split(text) == text

(***************************************************************************)
(* TextProcessor.to_chunks, lines 39-59.                                   *)
(***************************************************************************)
FitsOffByOne(current_tokens, n, max_tokens) == current_tokens + n <= max_tokens + 1

\* line 48: the sentence still fits the running chunk.
Fits(current_tokens, n, max_tokens) == current_tokens + n <= max_tokens

StartChunkEmpty(sentence) == <<>>

\* line 54: the running chunk restarts with the current sentence.
StartChunk(sentence) == <<sentence>>

StartTokensZero(n) == 0

\* line 55: the running total restarts with the sentence's own count.
StartTokens(n) == n

RECURSIVE to_chunks_loop(_, _, _, _, _, _, _)
to_chunks_loop(seqs, i, chs, toks, current_chunk, current_tokens, max_tokens) ==
    IF i > Len(seqs)
    THEN IF current_chunk # <<>>
         THEN [chunks |-> Append(chs, current_chunk), tokens |-> Append(toks, current_tokens)]
         ELSE [chunks |-> chs, tokens |-> toks]
    ELSE LET sentence == seqs[i]
             n == Encode(sentence)
         IN  IF Fits(current_tokens, n, max_tokens)
             THEN to_chunks_loop(seqs, i + 1, chs, toks,
                                 Append(current_chunk, sentence), current_tokens + n, max_tokens)
             ELSE to_chunks_loop(seqs, i + 1, Append(chs, current_chunk), Append(toks, current_tokens),
                                 StartChunk(sentence), StartTokens(n), max_tokens)

to_chunks(seqs, max_tokens) == to_chunks_loop(seqs, 1, <<>>, <<>>, <<>>, 0, max_tokens)

(***************************************************************************)
(* naive_split and naive_token_splitter, lines 210-214 and 236-266.        *)
(***************************************************************************)
RECURSIVE naive_split(_, _)
naive_split(text, minimal_length) ==
    IF text = <<>> THEN <<>>
    ELSE IF Head(text) > minimal_length
         THEN <<Head(text)>> \o naive_split(Tail(text), minimal_length)
         ELSE naive_split(Tail(text), minimal_length)

\* line 259: what one appended sentence adds to the running total.
NaiveAdd(n_token) == n_token + 1

\* The loop of lines 248-259; rows of the table are built after it (261-266).
RECURSIVE naive_loop(_, _, _, _, _, _, _)
naive_loop(sentences, i, chs, toks, chunk, total_tokens, max_tokens) ==
    IF i > Len(sentences)
    THEN [chunks |-> chs, tokens |-> toks, chunk |-> chunk, total_tokens |-> total_tokens]
    ELSE LET sentence == sentences[i]
             n_token == Encode(sentence)
             flush == total_tokens + n_token > max_tokens /\ chunk # <<>>
             chs1 == IF flush THEN Append(chs, chunk) ELSE chs
             toks1 == IF flush THEN Append(toks, total_tokens) ELSE toks
             chunk1 == IF flush THEN <<>> ELSE chunk
             total1 == IF flush THEN 0 ELSE total_tokens
         IN  IF n_token > max_tokens
             THEN naive_loop(sentences, i + 1, chs1, toks1, chunk1, total1, max_tokens)
             ELSE naive_loop(sentences, i + 1, chs1, toks1,
                             Append(chunk1, sentence), total1 + NaiveAdd(n_token), max_tokens)

naive_token_splitter(text, max_tokens, minimal_length) ==
    LET r == naive_loop(naive_split(text, minimal_length), 1, <<>>, <<>>, <<>>, 0, max_tokens)
    IN  [i \in 1..Len(r.chunks) |-> [chunks |-> r.chunks[i], n_tokens |-> r.tokens[i]]]

(***************************************************************************)
(* The TextProcessor object.  A method is an operator from the object's    *)
(* fields and the arguments to the fields after the call and the exception *)
(* the call ended with ("none": it returned).                              *)
(***************************************************************************)
\* The fields after construction (BaseTextProcessor.__init__).
NewProcessor == [sequences |-> <<>>, chunks |-> <<>>, n_tokens |-> <<>>, segments |-> <<>>, dataframe |-> <<>>]

self == [sequences |-> sequences, chunks |-> chunks, n_tokens |-> n_tokens, segments |-> segments, dataframe |-> dataframe]

\* An argument `data`/`text`: None, a str (a text) or a list (of chunk texts).
NoData == [kind |-> "none", value |-> <<>>]
Str(text) == [kind |-> "str", value |-> text]
List(chunkList) == [kind |-> "list", value |-> chunkList]

Returned(obj) == [self |-> obj, raised |-> "none"]
Raised(obj, exc) == [self |-> obj, raised |-> exc]

\* TextProcessor.to_chunks, lines 33-62.
do_to_chunks(obj, text, max_tokens) ==
    LET seqs == IF text.kind = "none" THEN obj.sequences ELSE split(text.value)
        r == to_chunks(seqs, max_tokens)
    IN  Returned([obj EXCEPT !.sequences = seqs, !.chunks = r.chunks, !.n_tokens = r.tokens])

ComparedWithPrevious(start_idx, end_idx) == end_idx - 1

\* line 91: the index of the doc the doc at end_idx is compared with.
ComparedWith(start_idx, end_idx) == start_idx

\* docs[i].similarity(docs[j]) for two positions of the chunk list.
Similarity(sim, i, j) == IF i = j THEN 1 ELSE IF i < j THEN sim[<<i, j>>] ELSE sim[<<j, i>>]

\* The loop of lines 90-97 (indices from 1), then lines 98-99.
RECURSIVE group_loop(_, _, _, _, _, _, _)
group_loop(docs, start_idx, end_idx, segs, segment, threshold, sim) ==
    IF end_idx > Len(docs)
    THEN IF segment # <<>> THEN Append(segs, segment) ELSE segs
    ELSE IF Similarity(sim, ComparedWith(start_idx, end_idx), end_idx) >= threshold
         THEN group_loop(docs, start_idx, end_idx + 1, segs, Append(segment, docs[end_idx]), threshold, sim)
         ELSE group_loop(docs, end_idx, end_idx + 1, Append(segs, segment), <<docs[end_idx]>>, threshold, sim)

\* TextProcessor.group_by_semantics, lines 70-101.
do_group_by_semantics(obj, d, max_tokens, threshold, sim) ==
    LET o1 == IF d.kind = "list"
              THEN [obj EXCEPT !.n_tokens = IF obj.n_tokens = <<>>
                                            THEN [i \in 1..Len(d.value) |-> EncodeChunk(d.value[i])]
                                            ELSE obj.n_tokens,
                               !.chunks = d.value]
              ELSE IF d.kind = "str"
                   THEN do_to_chunks(obj, d, max_tokens).self
                   ELSE obj
    IN  IF o1.chunks = <<>>
        THEN Raised(o1, "IndexError")      \* line 89: self.chunks[0] of an empty list
        ELSE Returned([o1 EXCEPT !.segments =
                           group_loop(o1.chunks, 1, 2, <<>>, <<o1.chunks[1]>>, threshold, sim)])

\* lines 118-124: the columns the table is built from.
TableChunks(obj) == obj.chunks

\* TextProcessor.to_dataframe, lines 108-125.
do_to_dataframe(obj, d, max_tokens, threshold, sim) ==
    LET g == IF d.kind # "none"
             THEN do_group_by_semantics(obj, d, max_tokens, threshold, sim)
             ELSE Returned(obj)
        col == TableChunks(g.self)
    IN  IF g.raised # "none" THEN g
        ELSE IF Len(col) # Len(g.self.n_tokens)
             THEN Raised(g.self, "ValueError")   \* pandas: arrays must be of the same length
             ELSE Returned([g.self EXCEPT !.dataframe =
                      [i \in 1..Len(col) |-> [chunks |-> col[i], n_tokens |-> g.self.n_tokens[i], embeddings |-> None]]])

(***************************************************************************)
(* The embedding fetch, lines 143-156 (one request at a time) and 180-194  *)
(* (all requests issued, then asyncio.gather).  resp[i] is the service's   *)
(* response to the request made for row i: a vector, or Failure.           *)
(***************************************************************************)
Vectors == {1, 2}
Failure == {0}
Responses == Vectors \cup Failure

\* line 154 and line 192: the new column is written to the table.
SetColumn(table, column) == [i \in 1..Len(table) |-> [table[i] EXCEPT !.embeddings = Some(column[i])]]

\* lines 151-152: the requests are made in row order, each awaited before the next.
RECURSIVE embeddings_loop(_, _, _, _)
embeddings_loop(table, i, embeddings, resp) ==
    IF i > Len(table) THEN [raised |-> "none", embeddings |-> embeddings]
    ELSE IF resp[i] \in Failure THEN [raised |-> "APIError", embeddings |-> embeddings]
         ELSE embeddings_loop(table, i + 1, Append(embeddings, resp[i]), resp)

\* TextProcessor.embeddings, lines 134-156.
do_embeddings(obj, d, max_tokens, threshold, sim, resp) ==
    LET t == IF d.kind # "none" THEN do_to_dataframe(obj, d, max_tokens, threshold, sim) ELSE Returned(obj)
        r == embeddings_loop(t.self.dataframe, 1, <<>>, resp)
    IN  IF t.raised # "none" THEN t
        ELSE IF r.raised # "none" THEN Raised(t.self, r.raised)
             ELSE Returned([t.self EXCEPT !.dataframe = SetColumn(t.self.dataframe, r.embeddings)])

gatherAsArrived(ts, order) == [k \in 1..Len(ts) |-> ts[order[k]].result]

\* line 192: asyncio.gather returns the results in the order of the awaitables.
gather(ts, order) == [i \in 1..Len(ts) |-> ts[i].result]

(***************************************************************************)
(* State machine.                                                          *)
(***************************************************************************)
Scores == {0, 1}
Thresholds == {0, 1, 2}
Pairs(n) == {p \in (1..n) \X (1..n) : p[1] < p[2]}

Idle == call.pc = "done"

SetSelf(obj) ==
    /\ sequences' = obj.sequences
    /\ chunks' = obj.chunks
    /\ n_tokens' = obj.n_tokens
    /\ segments' = obj.segments
    /\ dataframe' = obj.dataframe

Finish(op, d, r) ==
    /\ SetSelf(r.self)
    /\ call' = [op |-> op, arg |-> d.kind, raised |-> r.raised, pc |-> "done"]

\* The pre-split list of chunks made of the input text: one chunk per sentence.
InputList == [i \in 1..Len(input.text) |-> <<input.text[i]>>]

ToChunks(text) ==
    /\ Idle
    /\ Finish("to_chunks", text, do_to_chunks(self, text, input.max_tokens))
    /\ UNCHANGED <<encoding, input, data, tasks, arrived>>

NaiveTokenSplitter ==
    /\ Idle
    /\ data' = naive_token_splitter(input.text, input.max_tokens, input.minimal_length)
    /\ call' = [op |-> "naive_token_splitter", arg |-> "str", raised |-> "none", pc |-> "done"]
    /\ UNCHANGED <<encoding, input, sequences, chunks, n_tokens, segments, dataframe, tasks, arrived>>

GroupBySemantics(d) ==
    /\ Idle
    /\ Finish("group_by_semantics", d,
              do_group_by_semantics(self, d, input.max_tokens, input.threshold, input.sim))
    /\ UNCHANGED <<encoding, input, data, tasks, arrived>>

ToDataframe(d) ==
    /\ Idle
    /\ Finish("to_dataframe", d,
              do_to_dataframe(self, d, input.max_tokens, input.threshold, input.sim))
    /\ UNCHANGED <<encoding, input, data, tasks, arrived>>

Embeddings(d) ==
    /\ Idle
    /\ Finish("embeddings", d,
              do_embeddings(self, d, input.max_tokens, input.threshold, input.sim, input.resp))
    /\ UNCHANGED <<encoding, input, data, tasks, arrived>>

\* async_embeddings up to the await of line 192: the table is built, one
\* coroutine per row is created and every request is issued.
AsyncEmbeddings(d) ==
    /\ Idle
    /\ LET t == IF d.kind # "none"
                THEN do_to_dataframe(self, d, input.max_tokens, input.threshold, input.sim)
                ELSE Returned(self)
       IN  /\ SetSelf(t.self)
           /\ IF t.raised # "none"
              THEN /\ call' = [op |-> "async_embeddings", arg |-> d.kind, raised |-> t.raised, pc |-> "done"]
                   /\ UNCHANGED <<tasks, arrived>>
              ELSE /\ call' = [op |-> "async_embeddings", arg |-> d.kind, raised |-> "none", pc |-> "await"]
                   /\ tasks' = [i \in 1..Len(t.self.dataframe) |->
                                   [row |-> i, state |-> "pending", result |-> 0]]
                   /\ arrived' = <<>>
    /\ UNCHANGED <<encoding, input, data>>

\* The response to the request of task i arrives (lines 183-187), in any order.
Respond(i) ==
    /\ call.pc = "await"
    /\ i \in 1..Len(tasks)
    /\ tasks[i].state = "pending"
    /\ \A j \in 1..Len(tasks) : tasks[j].state # "failed"
    /\ tasks' = [tasks EXCEPT ![i] = [row |-> i,
                                      state |-> IF input.resp[i] \in Failure THEN "failed" ELSE "done",
                                      result |-> input.resp[i]]]
    /\ arrived' = Append(arrived, i)
    /\ UNCHANGED <<encoding, input, sequences, chunks, n_tokens, segments, dataframe, data, call>>

\* asyncio.gather completes: with the first failure, or when every task is done.
Gather ==
    /\ call.pc = "await"
    /\ \/ /\ \E j \in 1..Len(tasks) : tasks[j].state = "failed"
          /\ call' = [call EXCEPT !.raised = "APIError", !.pc = "done"]
          /\ UNCHANGED dataframe
       \/ /\ \A j \in 1..Len(tasks) : tasks[j].state = "done"
          /\ call' = [call EXCEPT !.pc = "done"]
          /\ dataframe' = SetColumn(dataframe, gather(tasks, arrived))
    /\ tasks' = <<>>
    /\ UNCHANGED <<encoding, input, sequences, chunks, n_tokens, segments, data, arrived>>

NoCall == [op |-> "init", arg |-> "none", raised |-> "none", pc |-> "done"]

OneTokenEach == [s \in Sentences |-> 1]
AlwaysSimilar == [p \in Pairs(MaxLen + 1) |-> 1]
NeverSimilar == [p \in Pairs(MaxLen + 1) |-> 0]
\* One text of each length, its sentences taken in turn.
SampleTexts == {[i \in 1..k |-> ((i - 1) % NumSentences) + 1] : k \in 0..MaxLen}

NoResponses == [i \in 1..MaxLen |-> 1]

\* A TextProcessor after construction; no call made yet, nothing in flight.
InitObject ==
    /\ sequences = NewProcessor.sequences
    /\ chunks = NewProcessor.chunks
    /\ n_tokens = NewProcessor.n_tokens
    /\ segments = NewProcessor.segments
    /\ dataframe = NewProcessor.dataframe
    /\ data = <<>>
    /\ tasks = <<>>
    /\ arrived = <<>>
    /\ call = NoCall

Inputs(texts, budgets, minimals, thresholds, sims, resps) ==
    [text : texts, max_tokens : budgets, minimal_length : minimals,
     threshold : thresholds, sim : sims, resp : resps]

\* The two chunkers, applied to every text, tokenizer and budget.
InitChunks ==
    /\ InitObject
    /\ encoding \in [Sentences -> TokenCounts]
    /\ input \in Inputs(Texts, Budgets, MinimalLengths, {2}, {AlwaysSimilar}, {NoResponses})

NextChunks ==
    \/ ToChunks(Str(input.text))
    \/ ToChunks(NoData)
    \/ NaiveTokenSplitter

SpecChunks == InitChunks /\ [][NextChunks]_vars

\* The grouping pass, applied to every pre-split chunk list, threshold and similarity.
InitGrouper ==
    /\ InitObject
    /\ encoding = OneTokenEach
    /\ input \in Inputs(Texts, {MaxTok}, {0}, Thresholds, [Pairs(MaxLen) -> Scores], {NoResponses})

NextGrouper ==
    \/ GroupBySemantics(List(InputList))
    \/ GroupBySemantics(NoData)

SpecGrouper == InitGrouper /\ [][NextGrouper]_vars

\* The pipeline object under any sequence of calls of its chunking methods.
Init ==
    /\ InitObject
    /\ encoding \in [Sentences -> TokenCounts]
    /\ input \in Inputs(Texts, Budgets, {0}, Thresholds, {AlwaysSimilar, NeverSimilar}, {NoResponses})

Next ==
    \/ ToChunks(Str(input.text))
    \/ ToChunks(NoData)
    \/ GroupBySemantics(Str(input.text))
    \/ GroupBySemantics(List(InputList))
    \/ GroupBySemantics(NoData)
    \/ ToDataframe(Str(input.text))
    \/ ToDataframe(List(InputList))
    \/ ToDataframe(NoData)

Spec == Init /\ [][Next]_vars

\* The embedding fetch in both modes, for every table and every response.
InitEmbed ==
    /\ InitObject
    /\ encoding = OneTokenEach
    /\ input \in Inputs(SampleTexts, {MaxTok}, {0}, Thresholds, {AlwaysSimilar}, [1..MaxLen -> Responses])

NextEmbed ==
    \/ Embeddings(List(InputList))
    \/ Embeddings(NoData)
    \/ AsyncEmbeddings(List(InputList))
    \/ AsyncEmbeddings(NoData)
    \/ \E i \in 1..MaxLen : Respond(i)
    \/ Gather

SpecEmbed == InitEmbed /\ [][NextEmbed]_vars

(***************************************************************************)
(* Properties.                                                             *)
(***************************************************************************)
\* The sum of the individually measured token counts of a chunk's sentences.
SumOfMembers(chunk) == Sum([i \in 1..Len(chunk) |-> encoding[chunk[i]]])

ToChunksReturned == call.op = "to_chunks" /\ call.raised = "none"
NaiveReturned == call.op = "naive_token_splitter"

\* C1: every chunk to_chunks emits has a reported token count within
\* max_tokens, or is exactly one sentence whose own count exceeds max_tokens;
\* no chunk of two or more sentences exceeds the budget.
C1_WithinBudgetOrSingle ==
    \A i \in 1..Len(chunks) :
        n_tokens[i] > input.max_tokens =>
            /\ Len(chunks[i]) = 1
            /\ encoding[chunks[i][1]] > input.max_tokens

\* to_chunks returned a chunk of two sentences and an oversized one-sentence chunk.
C1_Witness ==
    /\ ToChunksReturned
    /\ \E i \in 1..Len(chunks) : Len(chunks[i]) >= 2
    /\ \E i \in 1..Len(chunks) : Len(chunks[i]) = 1 /\ n_tokens[i] > input.max_tokens

\* C2: the chunks of to_chunks, expanded to their sentences and read in
\* order, are the input sentence sequence: nothing dropped, duplicated or
\* reordered.
C2_ChunksReproduceSentences ==
    /\ Flatten(chunks) = sequences
    /\ (ToChunksReturned /\ call.arg = "str") => sequences = input.text

\* to_chunks split a text of MaxLen sentences into several chunks, one of them
\* holding two sentences or more.
C2_Witness ==
    /\ ToChunksReturned
    /\ Len(sequences) = MaxLen
    /\ Len(chunks) >= 2
    /\ \E i \in 1..Len(chunks) : Len(chunks[i]) >= 2

\* C3 (as stated): for both chunkers the token count reported for a chunk is
\* the sum of its member sentences' token counts, with nothing added.
C3_CountIsSumOfMembers ==
    /\ \A i \in 1..Len(chunks) : n_tokens[i] = SumOfMembers(chunks[i])
    /\ \A i \in 1..Len(data) : data[i].n_tokens = SumOfMembers(data[i].chunks)

\* C3 (amended): to_chunks reports the sum of its members' token counts;
\* naive_token_splitter reports that sum plus one for every member sentence.
C3_CountIsSumPlusOnePerNaiveMember ==
    /\ \A i \in 1..Len(chunks) : n_tokens[i] = SumOfMembers(chunks[i])
    /\ \A i \in 1..Len(data) : data[i].n_tokens = SumOfMembers(data[i].chunks) + Len(data[i].chunks)

\* Both chunkers have emitted a chunk of two sentences or more.
C3_Witness ==
    /\ \E i \in 1..Len(chunks) : Len(chunks[i]) >= 2
    /\ \E i \in 1..Len(data) : Len(data[i].chunks) >= 2

\* The sentences naive_split returns whose own token count fits max_tokens.
RECURSIVE FittingSentences(_, _)
FittingSentences(sentences, max_tokens) ==
    IF sentences = <<>> THEN <<>>
    ELSE IF encoding[Head(sentences)] <= max_tokens
         THEN <<Head(sentences)>> \o FittingSentences(Tail(sentences), max_tokens)
         ELSE FittingSentences(Tail(sentences), max_tokens)

RowChunks(table) == [i \in 1..Len(table) |-> table[i].chunks]

\* C4: naive_token_splitter emits the chunk still open after the last
\* sentence: the rows, read in order, hold every sentence of naive_split
\* whose own count fits max_tokens, each exactly once.
C4_NaiveEmitsFinalChunk ==
    NaiveReturned =>
        Flatten(RowChunks(data)) =
            FittingSentences(naive_split(input.text, input.minimal_length), input.max_tokens)

\* C5: every chunk to_chunks emits holds at least one sentence.
C5_NoEmptyChunk ==
    \A i \in 1..Len(chunks) : chunks[i] # <<>>

GroupReturned == call.op = "group_by_semantics" /\ call.raised = "none"

\* The positions of the chunk list that segment k covers.
SegStart(k) == 1 + Sum([m \in 1..(k - 1) |-> Len(segments[m])])
SegEnd(k) == SegStart(k) + Len(segments[k]) - 1

\* The segments, read in order, are the chunk list cut into consecutive runs.
IsPartition ==
    /\ Flatten(segments) = chunks
    /\ \A k \in 1..Len(segments) : segments[k] # <<>>

\* C6: group_by_semantics never fails; every chunk belongs to exactly one
\* segment, in chunk order; no chunk gives no segment and one chunk gives
\* exactly one segment.
C6_PartitionWithoutError ==
    call.op = "group_by_semantics" =>
        /\ call.raised = "none"
        /\ IsPartition
        /\ Len(chunks) = 0 => Len(segments) = 0
        /\ Len(chunks) = 1 => Len(segments) = 1

\* C7: chunk j belongs to the segment started by chunk s exactly when j and
\* every chunk between s and j are similar to s (the pivot) at the threshold;
\* the first chunk that is not closes the segment and starts the next one.
C7_PivotComparison ==
    GroupReturned =>
        /\ IsPartition
        /\ \A k \in 1..Len(segments) :
              \A j \in (SegStart(k) + 1)..Len(chunks) :
                  (j <= SegEnd(k)) <=>
                      \A m \in (SegStart(k) + 1)..j :
                          Similarity(input.sim, SegStart(k), m) >= input.threshold

\* Three chunks whose similarity is not transitive: the second is similar to
\* the first and the third to the second, but the third is not similar to the
\* first.  The pass gave the segments [1, 2] and [3].
C7_Witness ==
    /\ GroupReturned
    /\ Len(chunks) = 3
    /\ Similarity(input.sim, 1, 2) >= input.threshold
    /\ Similarity(input.sim, 2, 3) >= input.threshold
    /\ Similarity(input.sim, 1, 3) < input.threshold
    /\ Len(segments) = 2
    /\ Len(segments[1]) = 2

AsyncReturned == call.op = "async_embeddings" /\ call.pc = "done" /\ call.raised = "none"

\* C8: when async_embeddings returns, row i holds the vector returned for row
\* i's request whatever the order of arrival, and the table is the one the
\* sequential embeddings gives for the same rows and responses.
C8_AsyncEqualsSequential ==
    AsyncReturned =>
        /\ \A i \in 1..Len(dataframe) : dataframe[i].embeddings = Some(input.resp[i])
        /\ do_embeddings(self, NoData, input.max_tokens, input.threshold, input.sim, input.resp)
              = Returned(self)

\* async_embeddings returned after the responses arrived in an order other
\* than the order of the rows, with different vectors for different rows.
C8_Witness ==
    /\ AsyncReturned
    /\ Len(dataframe) >= 2
    /\ \E k \in 1..Len(arrived) : arrived[k] # k
    /\ \E i, j \in 1..Len(dataframe) : dataframe[i].embeddings # dataframe[j].embeddings

\* C9: after to_dataframe ran the grouping pass, the table has one row per
\* merged segment, in segment order, the row's text being the segment's.
C9_RowsAreSegments ==
    (call.op = "to_dataframe" /\ call.arg # "none" /\ call.raised = "none") =>
        /\ Len(dataframe) = Len(segments)
        /\ \A i \in 1..Len(dataframe) : dataframe[i].chunks = Flatten(segments[i])

\* C10: the stored chunk list and token-count list have the same length and
\* n_tokens[i] is the token count of chunks[i].
C10_TokensMatchChunks ==
    /\ Len(n_tokens) = Len(chunks)
    /\ \A i \in 1..Len(chunks) : n_tokens[i] = SumOfMembers(chunks[i])

====
